---------------------------- MODULE Spec2Model ----------------------------
(***************************************************************************)
(* A model of browscap.py: class UserAgentParser.                          *)
(*                                                                         *)
(* Strings are sequences of one-character strings, so that the glob to     *)
(* regular-expression conversion of load() and the matching done by the    *)
(* compiled expressions are computed character by character.               *)
(* A Python dict is a sequence of <<key, value>> pairs in insertion order  *)
(* (the order __match iterates in); the match cache, whose order nothing   *)
(* reads, is a function.                                                   *)
(***************************************************************************)
EXTENDS Integers, Sequences, FiniteSets, TLC

(***************************************************************************)
(* Bounds of the model.                                                    *)
(***************************************************************************)
\* Depth at which the interpreter stops a recursion (RecursionError); the
\* interpreter's own limit is far larger than any chain modelled here.
RecursionLimit == 4
\* The match cache is never evicted; the model stops adding keys at this size.
MaxCache == 2
\* The longest section name and the longest string of the expression checks.
GlobMaxLen == 3

(***************************************************************************)
(* Python dict, insertion ordered.                                         *)
(***************************************************************************)
EmptyDict == << >>

DictKeys(d) == {d[i][1] : i \in DOMAIN d}

DictHas(d, k) == k \in DictKeys(d)

DictGet(d, k) == d[CHOOSE i \in DOMAIN d : d[i][1] = k][2]

\* d[k] = v: an existing key keeps its position, a new key goes last.
DictSet(d, k, v) ==
    IF DictHas(d, k)
    THEN [i \in DOMAIN d |-> IF d[i][1] = k THEN <<k, v>> ELSE d[i]]
    ELSE Append(d, <<k, v>>)

\* dict.update on mappings whose order is never read (property mappings).
Update(result, other) ==
    [k \in DOMAIN result \cup DOMAIN other |->
        IF k \in DOMAIN other THEN other[k] ELSE result[k]]

(***************************************************************************)
(* Section names of the modelled browscap.ini files.                       *)
(***************************************************************************)
SecA == <<"a", "*">>
SecB == <<"a", "b", "*">>
SecC == <<"a", "?", "*">>
SecG == <<"g">>
SecH == <<"h">>
SecX == <<"*", "+">>
SecStar == <<"*">>
SecVersion == <<"V">>   \* stands for "GJK_Browscap_Version"
SecMissing == <<"m">>

\* cp.remove_section("*"); cp.remove_section("GJK_Browscap_Version")
MetaSections == {SecStar, SecVersion}

(***************************************************************************)
(* The files load() may be given.  A file that parses is a mapping from    *)
(* section name to that section's options (ConfigParser lower-cases the    *)
(* option names, so the parent reference is the option "parent").          *)
(***************************************************************************)
NoOptions == [k \in {} |-> ""]

Opt(k, v) == [x \in {k} |-> v]

\* A root, an intermediate section and three leaves; the leaves ab* and a?*
\* have identifiers of one length.
DbFull ==
    (SecStar :> Opt("browser", "default"))
    @@ (SecVersion :> Opt("version", "4000"))
    @@ (SecG :> Update(Opt("browser", "gen"), Opt("version", "0")))
    @@ (SecH :> Update(Opt("parent", SecG), Opt("browser", "fox")))
    @@ (SecA :> Update(Opt("parent", SecG), Opt("version", "1")))
    @@ (SecB :> Update(Opt("parent", SecH), Opt("version", "2")))
    @@ (SecC :> Update(Opt("parent", SecH), Opt("browser", "cee")))

\* A later release of the file: only a*, with other options.
DbSmall ==
    (SecA :> Opt("browser", "old"))

\* g and h name each other as parent; a* inherits from the cycle, ab* from a
\* section the file does not hold, a?* resolves.
DbBroken ==
    (SecG :> Opt("parent", SecH))
    @@ (SecH :> Opt("parent", SecG))
    @@ (SecA :> Update(Opt("parent", SecG), Opt("version", "1")))
    @@ (SecB :> Opt("parent", SecMissing))
    @@ (SecC :> Opt("browser", "cee"))

\* Only the meta sections: no section is left to load.
DbEmpty ==
    (SecStar :> Opt("browser", "default"))

\* The identifier *+ becomes an expression re.compile rejects.
DbBadRe ==
    (SecX :> Opt("browser", "bad"))
    @@ (SecA :> Opt("browser", "new"))

Databases ==
    [full |-> DbFull, small |-> DbSmall, broken |-> DbBroken,
     empty |-> DbEmpty, badre |-> DbBadRe]

DbNames == DOMAIN Databases

\* load() is called with the path of one of these files, with "nofile" (a
\* path that is no file) or with "corrupt" (a file readfp cannot parse).

\* The strings query() is called with.
UserAgents == {<<"a", "b">>, <<"a", "c">>, <<"b">>}

(***************************************************************************)
(* load(), lines 58-64: the section name rewritten as a regular expression.*)
(***************************************************************************)
\* str.replace(old, new) for a one-character old.
RECURSIVE Replace(_, _, _)
Replace(s, old, new) ==
    IF s = << >> THEN << >>
    ELSE (IF Head(s) = old THEN new ELSE <<Head(s)>>) \o Replace(Tail(s), old, new)

\* list("^$()[].-")
UnsafeChars == <<"^", "$", "(", ")", "[", "]", ".", "-">>

\* for unsafe_char in ...: user_agent_re = user_agent_re.replace(unsafe_char, "\%s" % unsafe_char)
RECURSIVE EscapeUnsafe(_, _)
EscapeUnsafe(s, i) ==
    IF i > Len(UnsafeChars) THEN s
    ELSE EscapeUnsafe(Replace(s, UnsafeChars[i], <<"\\", UnsafeChars[i]>>), i + 1)

\* .replace("?", ".").replace("*", ".*?")
ReplaceWildcards(s) == Replace(Replace(s, "?", <<".">>), "*", <<".", "*", "?">>)

\* "^%s$" % user_agent_re
Anchor(s) == <<"^">> \o s \o <<"$">>

ToRegexp(section) == Anchor(ReplaceWildcards(EscapeUnsafe(section, 1)))

(***************************************************************************)
(* re.compile and the compiled expression's match(), for the expressions   *)
(* ToRegexp can produce from the characters of the modelled section names: *)
(* ^ and $, an escaped character, the dot, a literal, and the repeats      *)
(* * + and their lazy forms.  A compiled expression is a sequence of items *)
(* [atom, ch, rep]; compiling fails as sre_parse does, with "nothing to    *)
(* repeat" after ^ and "multiple repeat" after a repeat.                   *)
(***************************************************************************)
ReError(msg) == [ok |-> FALSE, error |-> msg, items |-> << >>]

Item(atom, ch, rep) == [atom |-> atom, ch |-> ch, rep |-> rep]

RECURSIVE ReParse(_, _, _)
ReParse(p, i, items) ==
    IF i > Len(p) THEN [ok |-> TRUE, error |-> "", items |-> items]
    ELSE LET c == p[i] IN
         CASE c = "^" -> ReParse(p, i + 1, Append(items, Item("bol", "", "one")))
           [] c = "$" -> ReParse(p, i + 1, Append(items, Item("eol", "", "one")))
           [] c = "." -> ReParse(p, i + 1, Append(items, Item("any", "", "one")))
           [] c = "\\" ->
                IF i = Len(p) THEN ReError("bad escape (end of pattern)")
                ELSE ReParse(p, i + 2, Append(items, Item("lit", p[i + 1], "one")))
           [] c \in {"*", "+"} ->
                IF items = << >> \/ items[Len(items)].atom \in {"bol", "eol"}
                THEN ReError("nothing to repeat")
                ELSE IF items[Len(items)].rep # "one"
                THEN ReError("multiple repeat")
                ELSE LET lazy == i < Len(p) /\ p[i + 1] = "?"
                         prev == items[Len(items)]
                         rep == IF c = "*" THEN "star" ELSE "plus"
                     IN ReParse(p, IF lazy THEN i + 2 ELSE i + 1,
                                [items EXCEPT ![Len(items)] =
                                    Item(prev.atom, prev.ch, rep)])
           [] OTHER -> ReParse(p, i + 1, Append(items, Item("lit", c, "one")))

\* re.compile(pattern)
ReCompile(pattern) == ReParse(pattern, 1, << >>)

\* One character against an atom: the dot takes any character but a newline.
AtomMatches(item, ch) ==
    IF item.atom = "any" THEN ch # "\n" ELSE item.atom = "lit" /\ item.ch = ch

\* The items from i on match s from position j on (the items end where they
\* end: only a $ item asks for the end of the string).
RECURSIVE MatchFrom(_, _, _, _)
MatchFrom(items, i, s, j) ==
    IF i > Len(items) THEN TRUE
    ELSE LET it == items[i] IN
         CASE it.atom = "bol" -> j = 1 /\ MatchFrom(items, i + 1, s, j)
           [] it.atom = "eol" ->
                /\ j = Len(s) + 1 \/ (j = Len(s) /\ s[j] = "\n")
                /\ MatchFrom(items, i + 1, s, j)
           [] OTHER ->
                LET takes == j <= Len(s) /\ AtomMatches(it, s[j])
                    star == [it EXCEPT !.rep = "star"]
                IN CASE it.rep = "one" -> takes /\ MatchFrom(items, i + 1, s, j + 1)
                     [] it.rep = "star" ->
                          \/ MatchFrom(items, i + 1, s, j)
                          \/ takes /\ MatchFrom(items, i, s, j + 1)
                     [] OTHER ->
                          takes /\ MatchFrom([items EXCEPT ![i] = star], i, s, j + 1)

\* compiled.match(string): a match that starts at the first character.
ReMatch(compiled, string) == MatchFrom(compiled.items, 1, string, 1)

(***************************************************************************)
(* __get_browser_props, lines 155-173.  cp is the parsed file.  The result *)
(* is [ok, props, error]: the mapping, or the exception that left the      *)
(* call (NoSectionError from cp.items of a section the file does not hold, *)
(* RecursionError when the parent chain does not end).                     *)
(***************************************************************************)
PropsOk(props) == [ok |-> TRUE, props |-> props, error |-> ""]

PropsError(msg) == [ok |-> FALSE, props |-> NoOptions, error |-> msg]

\* cp.has_option(section, "parent"): False for a section the file does not hold.
HasParent(cp, section) == section \in DOMAIN cp /\ "parent" \in DOMAIN cp[section]

\* A resolver in which the parent's options overwrite the section's own.
RECURSIVE get_browser_props_parent_wins(_, _, _)
get_browser_props_parent_wins(cp, section, depth) ==
    IF depth > RecursionLimit THEN PropsError("RecursionError")
    ELSE LET parent_properties ==
                 IF HasParent(cp, section)
                 THEN get_browser_props_parent_wins(cp, cp[section]["parent"], depth + 1)
                 ELSE PropsOk(NoOptions)
         IN IF ~parent_properties.ok THEN parent_properties
            ELSE IF section \notin DOMAIN cp THEN PropsError("NoSectionError")
            ELSE PropsOk(Update(Update(NoOptions, cp[section]),
                                parent_properties.props))

RECURSIVE get_browser_props(_, _, _)
get_browser_props(cp, section, depth) ==
    IF depth > RecursionLimit THEN PropsError("RecursionError")
    ELSE LET parent_properties ==
                 IF HasParent(cp, section)
                 THEN get_browser_props(cp, cp[section]["parent"], depth + 1)
                 ELSE PropsOk(NoOptions)
         IN IF ~parent_properties.ok THEN parent_properties
            ELSE IF section \notin DOMAIN cp THEN PropsError("NoSectionError")
            ELSE PropsOk(Update(Update(NoOptions, parent_properties.props),
                                cp[section]))

(***************************************************************************)
(* load(), lines 21-72.                                                    *)
(***************************************************************************)
\* Lines 31-36: the parsed file without its meta sections.
ParsedFile(path) ==
    LET db == Databases[path]
    IN [s \in DOMAIN db \ MetaSections |-> db[s]]

\* Lines 39-45: the sections no section of the file names as its parent.
ChildSections(cp) ==
    {s \in DOMAIN cp : ~\E t \in DOMAIN cp : HasParent(cp, t) /\ cp[t]["parent"] = s}

\* The orders a set may be iterated in.
Orders(S) ==
    {o \in [1..Cardinality(S) -> S] : \A i, j \in DOMAIN o : o[i] = o[j] => i = j}

\* Lines 48-69, from the i-th section of the iteration on.  st holds the two
\* dicts, the sections given an entry, the sections skipped, and whether
\* re.compile raised (the exception leaves load: nothing catches it).
\* Lines 56-69 for one section whose properties resolved: the properties are
\* stored, then the expression is compiled and, unless that raised, stored.
StoreSection(st, section, props, user_agent_re) ==
    IF ~user_agent_re.ok
    THEN [st EXCEPT !.properties = DictSet(@, section, props),
                    !.stored = @ \cup {section},
                    !.raised = TRUE]
    ELSE [st EXCEPT !.properties = DictSet(@, section, props),
                    !.regexps = DictSet(@, section, user_agent_re),
                    !.stored = @ \cup {section}]

\* Every section name a modelled file holds.
AllSections == UNION {DOMAIN Databases[p] : p \in DbNames}

\* Lines 58-67 for each section name: the expression re.compile makes of it
\* (or the error it raises), which depends on the name alone.
CompiledRe == [section \in AllSections |-> ReCompile(ToRegexp(section))]

\* Lines 49-69 for one section: a section whose properties do not resolve is
\* reported and skipped.
LoadSection(cp, section, st, properties) ==
    IF ~properties.ok
    THEN [st EXCEPT !.skipped = @ \cup {section}]
    ELSE StoreSection(st, section, properties.props, CompiledRe[section])

RECURSIVE LoadSections(_, _, _, _)
LoadSections(cp, order, i, st) ==
    IF i > Len(order) \/ st.raised THEN st
    ELSE LoadSections(cp, order, i + 1,
             LoadSection(cp, order[i], st, get_browser_props(cp, order[i], 0)))

(***************************************************************************)
(* __match, lines 134-152, on a cache miss: the scan of the expressions in *)
(* the dict's order.                                                       *)
(***************************************************************************)
\* A scan that keeps the first section that matches.
Longer_first_match(section, matching_section) == matching_section = << >>

\* len(section) > len(matching_section)
Longer(section, matching_section) == Len(section) > Len(matching_section)

RECURSIVE Scan(_, _, _, _)
Scan(regexps, user_agent_string, i, matching_section) ==
    IF i > Len(regexps) THEN matching_section
    ELSE LET section == regexps[i][1] IN
         Scan(regexps, user_agent_string, i + 1,
              IF /\ ReMatch(regexps[i][2], user_agent_string)
                 /\ Longer(section, matching_section)
              THEN section ELSE matching_section)

(***************************************************************************)
(* The state of one UserAgentParser, and what its last call did.           *)
(***************************************************************************)
VARIABLES
    user_agent_properties,  \* dict: section name -> property mapping
    user_agent_regexps,     \* dict: section name -> compiled expression
    match_cache,            \* __match_cache: string -> section name or ""
    last,                   \* the last call and its outcome
    load_state,             \* "never" called, only "failed" calls, or a call "completed"
    stored_props,           \* per section, the mapping load last stored for it
    remembered,             \* one earlier call of query since the last load call
    loading,                \* the call of load that is under way, step by step
    threads                 \* per thread, the call of query that is under way

vars == <<user_agent_properties, user_agent_regexps, match_cache, last,
          load_state, stored_props, remembered, loading, threads>>

\* The threads that call query at the same time.
Threads == {1, 2}

\* No call of load is under way.
NoLoading ==
    [active |-> FALSE, path |-> "", order |-> << >>, i |-> 0, pc |-> "",
     properties |-> NoOptions, stored |-> {}, skipped |-> {},
     before |-> << >>, after |-> << >>]

\* A thread that is in no call.
Idle ==
    [pc |-> "idle", ua |-> << >>, safe |-> FALSE, matching_section |-> << >>,
     hit |-> FALSE, alone |-> << >>]

NoCall ==
    [op |-> "none", path |-> "", ua |-> << >>, safe |-> FALSE, outcome |-> "",
     section |-> << >>, value |-> NoOptions, message |-> << >>, scanned |-> 0,
     hit |-> FALSE, repeat |-> FALSE, stored |-> {}, skipped |-> {}]

\* __init__, lines 16-19
Init ==
    /\ user_agent_properties = EmptyDict
    /\ user_agent_regexps = EmptyDict
    /\ match_cache = << >>
    /\ last = NoCall
    /\ load_state = "never"
    /\ stored_props = << >>
    /\ remembered = NoCall
    /\ loading = NoLoading
    /\ threads = [t \in Threads |-> Idle]

\* What a call of load that ends as outcome makes of load_state.
AfterLoad(outcome) ==
    IF outcome = "ok" \/ load_state = "completed" THEN "completed" ELSE "failed"

\* A load that empties the parser before it looks for the file.
LoadNoFile_resets ==
    /\ load_state' = AfterLoad("file_not_found")
    /\ remembered' = NoCall
    /\ last' = [NoCall EXCEPT !.op = "load", !.path = "nofile",
                              !.outcome = "file_not_found"]
    /\ user_agent_properties' = EmptyDict
    /\ user_agent_regexps' = EmptyDict
    /\ match_cache' = << >>
    /\ UNCHANGED <<stored_props, loading, threads>>

\* load(path) on a path that is no file: line 29 raises.
LoadNoFile ==
    /\ load_state' = AfterLoad("file_not_found")
    /\ remembered' = NoCall
    /\ last' = [NoCall EXCEPT !.op = "load", !.path = "nofile",
                              !.outcome = "file_not_found"]
    /\ UNCHANGED <<user_agent_properties, user_agent_regexps, match_cache,
                   stored_props, loading, threads>>

\* load(path) on a file ConfigParser cannot read or parse: line 32 raises.
LoadUnreadable ==
    /\ load_state' = AfterLoad("read_error")
    /\ remembered' = NoCall
    /\ last' = [NoCall EXCEPT !.op = "load", !.path = "corrupt",
                              !.outcome = "read_error"]
    /\ UNCHANGED <<user_agent_properties, user_agent_regexps, match_cache,
                   stored_props, loading, threads>>

\* load(path) on a file that parses.
Load(path) ==
    LET cp == ParsedFile(path)
        child_sections == ChildSections(cp)
    IN \E order \in Orders(child_sections) :
         \E st \in {LoadSections(cp, order, 1,
                       [properties |-> user_agent_properties,
                        regexps |-> user_agent_regexps,
                        stored |-> {}, skipped |-> {}, raised |-> FALSE])} :
            /\ user_agent_properties' = st.properties
            /\ user_agent_regexps' = st.regexps
            /\ load_state' = AfterLoad(IF st.raised THEN "compile_error" ELSE "ok")
            /\ remembered' = NoCall
            /\ stored_props' =
                   [s \in DOMAIN stored_props \cup st.stored |->
                       IF s \in st.stored THEN DictGet(st.properties, s)
                       ELSE stored_props[s]]
            /\ last' = [NoCall EXCEPT !.op = "load", !.path = path,
                           !.outcome = IF st.raised THEN "compile_error" ELSE "ok",
                           !.stored = st.stored, !.skipped = st.skipped]
            /\ UNCHANGED <<match_cache, loading, threads>>

\* A check that never raises.
check_init_never_raises == TRUE

\* __check_init, lines 126-130: raises unless user_agent_regexps holds an entry.
check_init == user_agent_regexps # EmptyDict

\* A match that does not look in the cache.
match_rescans(user_agent_string) ==
    LET matching_section == Scan(user_agent_regexps, user_agent_string, 1, << >>)
    IN [section |-> matching_section,
        cache |-> (user_agent_string :> matching_section) @@ match_cache,
        scanned |-> Len(user_agent_regexps), hit |-> FALSE]

\* A match whose cache keeps only the entry written last.
match_single_entry(user_agent_string) ==
    IF user_agent_string \in DOMAIN match_cache
    THEN [section |-> match_cache[user_agent_string], cache |-> match_cache,
          scanned |-> 0, hit |-> TRUE]
    ELSE LET matching_section == Scan(user_agent_regexps, user_agent_string, 1, << >>)
         IN [section |-> matching_section,
             cache |-> (user_agent_string :> matching_section),
             scanned |-> Len(user_agent_regexps), hit |-> FALSE]

\* __match, lines 134-152: [section, cache, scanned, hit]
match(user_agent_string) ==
    IF user_agent_string \in DOMAIN match_cache
    THEN [section |-> match_cache[user_agent_string], cache |-> match_cache,
          scanned |-> 0, hit |-> TRUE]
    ELSE LET matching_section == Scan(user_agent_regexps, user_agent_string, 1, << >>)
         IN [section |-> matching_section,
             cache |-> (user_agent_string :> matching_section) @@ match_cache,
             scanned |-> Len(user_agent_regexps), hit |-> FALSE]

\* query(user_agent_string, safe), lines 107-124
query(user_agent_string, safe) ==
    LET call == [NoCall EXCEPT !.op = "query", !.ua = user_agent_string,
                               !.safe = safe,
                               !.repeat = /\ remembered # NoCall
                                          /\ remembered.ua = user_agent_string
                                          /\ remembered.safe = safe]
    IN IF ~check_init
       THEN /\ last' = [call EXCEPT !.outcome = "uninitialized_error"]
            /\ UNCHANGED match_cache
       ELSE \E m \in {match(user_agent_string)} :
            LET found == [call EXCEPT !.section = m.section, !.scanned = m.scanned,
                                      !.hit = m.hit]
            IN /\ m.hit \/ Cardinality(DOMAIN match_cache) < MaxCache
               /\ match_cache' = m.cache
               /\ last' = IF m.section = << >>
                          THEN IF safe
                               THEN [found EXCEPT !.outcome = "empty"]
                               ELSE [found EXCEPT !.outcome = "unknown_error",
                                                  !.message = user_agent_string]
                          ELSE [found EXCEPT !.outcome = "props",
                                   !.value = DictGet(user_agent_properties, m.section)]

\* A call of query.  With remember, the call is kept to compare a later call
\* for the same string with (one call is kept between two load calls).
Query(user_agent_string, safe, remember) ==
    /\ query(user_agent_string, safe)
    /\ remembered' = IF remember /\ remembered = NoCall
                   THEN [NoCall EXCEPT !.op = "query", !.ua = last'.ua,
                                       !.safe = last'.safe,
                                       !.outcome = last'.outcome,
                                       !.section = last'.section]
                   ELSE remembered
    /\ UNCHANGED <<user_agent_properties, user_agent_regexps, load_state,
                   stored_props, loading, threads>>

\* query returns the dict the parser holds for the section (line 124), so the
\* caller that got it can write to it: d["browser"] = "spoofed", or d.clear().
CallerWrites(props, how) ==
    IF how = "set" THEN Update(props, Opt("browser", "spoofed")) ELSE NoOptions

Calls ==
    \/ LoadNoFile
    \/ LoadUnreadable
    \/ \E path \in DbNames : Load(path)

CallerMutates(how) ==
    /\ \/ last.op = "query" /\ last.outcome = "props"
       \/ last.op = "mutate"
    /\ user_agent_properties' =
           DictSet(user_agent_properties, last.section,
                   CallerWrites(DictGet(user_agent_properties, last.section), how))
    /\ last' = [NoCall EXCEPT !.op = "mutate", !.section = last.section]
    /\ UNCHANGED <<user_agent_regexps, match_cache, load_state, stored_props,
                   remembered, loading, threads>>

\* The calls made on the parser.
Next ==
    \/ Calls
    \/ \E ua \in UserAgents, safe \in BOOLEAN : Query(ua, safe, FALSE)

Spec == Init /\ [][Next]_vars

\* The same calls, with one call of query kept between two load calls.
NextRepeat ==
    \/ Calls
    \/ \E ua \in UserAgents, safe \in BOOLEAN :
          \E remember \in IF remembered = NoCall THEN BOOLEAN ELSE {FALSE} :
             Query(ua, safe, remember)

SpecRepeat == Init /\ [][NextRepeat]_vars

\* The calls, and a caller that writes to the mappings query returned.
NextCaller ==
    \/ Calls
    \/ \E ua \in UserAgents, safe \in BOOLEAN : Query(ua, safe, FALSE)
    \/ \E how \in {"set", "clear"} : CallerMutates(how)

SpecCaller == Init /\ [][NextCaller]_vars

(***************************************************************************)
(* get_all_user_agents, and a caller that edits the list it returned.      *)
(***************************************************************************)
\* list(self.user_agent_properties.keys()), line 105: a new list of the keys,
\* in the dict's order.
KeyList(d) == [i \in DOMAIN d |-> d[i][1]]

\* get_all_user_agents(), lines 101-105
get_all_user_agents ==
    IF ~check_init
    THEN last' = [NoCall EXCEPT !.op = "list", !.outcome = "uninitialized_error"]
    ELSE last' = [NoCall EXCEPT !.op = "list", !.outcome = "keys",
                                !.value = KeyList(user_agent_properties)]

GetAllUserAgents ==
    /\ get_all_user_agents
    /\ UNCHANGED <<user_agent_properties, user_agent_regexps, match_cache,
                   load_state, stored_props, remembered, loading, threads>>

\* The caller writes to the list it was returned: del l[:] or l.append(..).
CallerEditsList(how) ==
    /\ last.op = "list" /\ last.outcome = "keys"
    /\ last' = [last EXCEPT !.op = "list_edit",
                            !.value = IF how = "clear" THEN << >>
                                      ELSE Append(last.value, SecMissing)]
    /\ UNCHANGED <<user_agent_properties, user_agent_regexps, match_cache,
                   load_state, stored_props, remembered, loading, threads>>

\* The calls of load, query and get_all_user_agents.
NextList ==
    \/ Calls
    \/ \E ua \in UserAgents, safe \in BOOLEAN : Query(ua, safe, FALSE)
    \/ GetAllUserAgents
    \/ \E how \in {"clear", "append"} : CallerEditsList(how)

SpecList == Init /\ [][NextList]_vars

(***************************************************************************)
(* Lines 58-67 and line 147 on their own: a section name is made into an   *)
(* expression, compiled and matched against a string.                      *)
(***************************************************************************)
\* The strings of at most n characters of chars.
RECURSIVE Strings(_, _)
Strings(chars, n) ==
    IF n = 0 THEN {<< >>}
    ELSE LET shorter == Strings(chars, n - 1)
         IN shorter \cup {Append(s, c) : s \in shorter, c \in chars}

\* Section names: a letter, the two wildcards, a character load escapes and
\* one it does not.  A name in which + follows + is left out: its expression
\* is an error up to Python 3.10 and a possessive repeat in 3.11.
GlobNames ==
    {p \in Strings({"a", "?", "*", "+", "."}, GlobMaxLen) :
        /\ p # << >>
        /\ \A i \in 1..(Len(p) - 1) : ~(p[i] = "+" /\ p[i + 1] = "+")}

GlobSubjects == Strings({"a", "b", "+", "\n"}, GlobMaxLen)

\* A parser as __init__ leaves it, and the name and the string to take.
InitGlob ==
    /\ \E section \in GlobNames, user_agent_string \in GlobSubjects :
          last = [NoCall EXCEPT !.op = "match", !.section = section,
                                !.ua = user_agent_string, !.outcome = "pending"]
    /\ user_agent_properties = EmptyDict
    /\ user_agent_regexps = EmptyDict
    /\ match_cache = << >>
    /\ load_state = "never"
    /\ stored_props = << >>
    /\ remembered = NoCall
    /\ loading = NoLoading
    /\ threads = [t \in Threads |-> Idle]

CompileAndMatch ==
    /\ last.op = "match" /\ last.outcome = "pending"
    /\ \E user_agent_re \in {ReCompile(ToRegexp(last.section))} :
          last' = [last EXCEPT
                      !.outcome = IF ~user_agent_re.ok THEN "compile_error"
                                  ELSE IF ReMatch(user_agent_re, last.ua)
                                       THEN "match" ELSE "no_match"]
    /\ UNCHANGED <<user_agent_properties, user_agent_regexps, match_cache,
                   load_state, stored_props, remembered, loading, threads>>

NextGlob == CompileAndMatch

SpecGlob == InitGlob /\ [][NextGlob]_vars

(***************************************************************************)
(* load() step by step, with calls of query made by other threads between  *)
(* its steps.  load holds no lock and writes the two dicts of the parser    *)
(* in place, an entry at a time; a thread switch can fall between any two   *)
(* of its statements.  The calls of query are taken whole here.             *)
(***************************************************************************)
\* Lines 117-124: what query returns or raises for the section __match gave.
Returned(section, safe, properties) ==
    IF section = << >>
    THEN [outcome |-> IF safe THEN "empty" ELSE "unknown_error",
          section |-> section, value |-> NoOptions]
    ELSE [outcome |-> "props", section |-> section,
          value |-> DictGet(properties, section)]

\* Lines 21-45: the file is read, its leaves are found, and the loop over
\* them is about to start.  before and after keep the two dicts as they are
\* now and as the loop leaves them.
LoadBegin(path) ==
    /\ ~loading.active
    /\ \E order \in Orders(ChildSections(ParsedFile(path))) :
         \E st \in {LoadSections(ParsedFile(path), order, 1,
                       [properties |-> user_agent_properties,
                        regexps |-> user_agent_regexps,
                        stored |-> {}, skipped |-> {}, raised |-> FALSE])} :
            loading' = [NoLoading EXCEPT
                           !.active = TRUE, !.path = path, !.order = order,
                           !.i = 1, !.pc = "resolve",
                           !.before = [properties |-> user_agent_properties,
                                       regexps |-> user_agent_regexps],
                           !.after = [properties |-> st.properties,
                                      regexps |-> st.regexps]]
    /\ UNCHANGED <<user_agent_properties, user_agent_regexps, match_cache, last,
                   load_state, stored_props, remembered, threads>>

\* Lines 48-56 for the next section: its properties are resolved and stored,
\* or the section is reported and skipped.
LoadResolve ==
    /\ loading.active /\ loading.pc = "resolve" /\ loading.i <= Len(loading.order)
    /\ LET section == loading.order[loading.i]
           properties == get_browser_props(ParsedFile(loading.path), section, 0)
       IN IF ~properties.ok
          THEN /\ loading' = [loading EXCEPT !.i = @ + 1,
                                             !.skipped = @ \cup {section}]
               /\ UNCHANGED <<user_agent_properties, stored_props>>
          ELSE /\ user_agent_properties' =
                      DictSet(user_agent_properties, section, properties.props)
               /\ stored_props' =
                      [s \in DOMAIN stored_props \cup {section} |->
                          IF s = section THEN properties.props ELSE stored_props[s]]
               /\ loading' = [loading EXCEPT !.pc = "compile",
                                             !.stored = @ \cup {section}]
    /\ UNCHANGED <<user_agent_regexps, match_cache, last, load_state, remembered,
                   threads>>

\* Lines 58-69 for the same section: its expression is compiled and stored;
\* re.error leaves load.
LoadCompile ==
    /\ loading.active /\ loading.pc = "compile"
    /\ LET section == loading.order[loading.i]
           user_agent_re == CompiledRe[section]
       IN IF ~user_agent_re.ok
          THEN /\ loading' = NoLoading
               /\ load_state' = AfterLoad("compile_error")
               /\ last' = [NoCall EXCEPT !.op = "load", !.path = loading.path,
                                         !.outcome = "compile_error",
                                         !.stored = loading.stored,
                                         !.skipped = loading.skipped]
               /\ remembered' = NoCall
               /\ UNCHANGED user_agent_regexps
          ELSE /\ user_agent_regexps' =
                      DictSet(user_agent_regexps, section, user_agent_re)
               /\ loading' = [loading EXCEPT !.i = @ + 1, !.pc = "resolve"]
               /\ UNCHANGED <<load_state, last, remembered>>
    /\ UNCHANGED <<user_agent_properties, match_cache, stored_props, threads>>

\* Lines 71-72: the loop is over and load returns.
LoadReturn ==
    /\ loading.active /\ loading.pc = "resolve" /\ loading.i > Len(loading.order)
    /\ loading' = NoLoading
    /\ load_state' = AfterLoad("ok")
    /\ last' = [NoCall EXCEPT !.op = "load", !.path = loading.path,
                              !.outcome = "ok", !.stored = loading.stored,
                              !.skipped = loading.skipped]
    /\ remembered' = NoCall
    /\ UNCHANGED <<user_agent_properties, user_agent_regexps, match_cache,
                   stored_props, threads>>

\* The files loaded step by step.
InterleavedFiles == {"small", "full", "badre"}

\* One thread calls load; others call query at any time.
NextInterleaved ==
    \/ \E path \in InterleavedFiles : LoadBegin(path)
    \/ LoadResolve
    \/ LoadCompile
    \/ LoadReturn
    \/ \E ua \in UserAgents, safe \in BOOLEAN : Query(ua, safe, FALSE)

SpecInterleaved == Init /\ [][NextInterleaved]_vars

(***************************************************************************)
(* query() step by step in several threads, on dicts no load is writing.   *)
(* A step is what runs between two points a thread switch can fall on      *)
(* that matter here: the dict reads and the dict write of __match are each *)
(* atomic under the interpreter lock, and the scan reads a dict that no    *)
(* thread writes.                                                          *)
(***************************************************************************)
\* What the call returns or raises when no other call runs beside it.
Alone(user_agent_string, safe) ==
    IF ~check_init
    THEN [outcome |-> "uninitialized_error", section |-> << >>, value |-> NoOptions]
    ELSE Returned(match(user_agent_string).section, safe, user_agent_properties)

\* The strings some thread is about to write a cache entry for.
Pending == {threads[t].ua : t \in {u \in Threads : threads[u].pc \in {"scan", "write"}}}

\* Lines 113 and 140-141: __check_init, then the look into the cache.
QueryEnter(t, user_agent_string, safe) ==
    /\ threads[t].pc = "idle"
    /\ \/ user_agent_string \in DOMAIN match_cache
       \/ Cardinality(DOMAIN match_cache \cup Pending \cup {user_agent_string})
              <= MaxCache
    /\ LET cached == check_init /\ user_agent_string \in DOMAIN match_cache
       IN threads' = [threads EXCEPT ![t] =
              [pc |-> IF ~check_init THEN "raise"
                      ELSE IF cached THEN "return" ELSE "scan",
               ua |-> user_agent_string,
               safe |-> safe,
               matching_section |-> IF cached THEN match_cache[user_agent_string]
                                    ELSE << >>,
               hit |-> cached,
               alone |-> Alone(user_agent_string, safe)]]
    /\ UNCHANGED <<user_agent_properties, user_agent_regexps, match_cache, last,
                   load_state, stored_props, remembered, loading>>

\* Lines 144-148: the scan, into the local variable matching_section.
QueryScan(t) ==
    /\ threads[t].pc = "scan"
    /\ threads' = [threads EXCEPT
                      ![t].matching_section =
                          Scan(user_agent_regexps, threads[t].ua, 1, << >>),
                      ![t].pc = "write"]
    /\ UNCHANGED <<user_agent_properties, user_agent_regexps, match_cache, last,
                   load_state, stored_props, remembered, loading>>

\* A matching_section kept where every thread writes it (an attribute of the
\* parser): the value of a thread that has scanned and not yet written, when
\* there is one.
Local_shared(t) ==
    LET writers == {u \in Threads : threads[u].pc = "write"}
    IN IF writers = {} THEN threads[t].matching_section
       ELSE threads[CHOOSE u \in writers : TRUE].matching_section

\* matching_section is a local variable of __match: each thread has its own.
Local(t) == threads[t].matching_section

\* Line 151: self.__match_cache[user_agent_string] = matching_section
QueryWrite(t) ==
    /\ threads[t].pc = "write"
    /\ match_cache' = (threads[t].ua :> Local(t)) @@ match_cache
    /\ threads' = [threads EXCEPT ![t].pc = "return"]
    /\ UNCHANGED <<user_agent_properties, user_agent_regexps, last, load_state,
                   stored_props, remembered, loading>>

\* Lines 117-124 (or line 130): the call returns or raises.
QueryReturn(t) ==
    /\ threads[t].pc \in {"return", "raise"}
    /\ LET call == [NoCall EXCEPT !.op = "query", !.ua = threads[t].ua,
                                  !.safe = threads[t].safe, !.hit = threads[t].hit]
           result == Returned(Local(t), threads[t].safe, user_agent_properties)
       IN last' = IF threads[t].pc = "raise"
                  THEN [call EXCEPT !.outcome = "uninitialized_error"]
                  ELSE [call EXCEPT !.outcome = result.outcome,
                                    !.section = result.section,
                                    !.value = result.value,
                                    !.message = IF result.outcome = "unknown_error"
                                                THEN threads[t].ua ELSE << >>]
    /\ threads' = [threads EXCEPT ![t] = Idle]
    /\ UNCHANGED <<user_agent_properties, user_agent_regexps, match_cache,
                   load_state, stored_props, remembered, loading>>

\* The files loaded between the races.
RaceFiles == {"small", "full", "badre"}

\* A call of load, made while no call of query is under way.
QuietLoad(path) ==
    /\ \A t \in Threads : threads[t].pc = "idle"
    /\ Load(path)

\* Calls of query in several threads, and calls of load between them.
NextRace ==
    \/ \E path \in RaceFiles : QuietLoad(path)
    \/ \E t \in Threads, ua \in UserAgents, safe \in BOOLEAN : QueryEnter(t, ua, safe)
    \/ \E t \in Threads : QueryScan(t)
    \/ \E t \in Threads : QueryWrite(t)
    \/ \E t \in Threads : QueryReturn(t)

SpecRace == Init /\ [][NextRace]_vars

(***************************************************************************)
(* What the claims speak of.                                               *)
(***************************************************************************)
\* The sections whose compiled expression matches the string.
Matching(regexps, string) ==
    {k \in DictKeys(regexps) : ReMatch(DictGet(regexps, k), string)}

\* Those of them no other of them is longer than.
MostSpecific(regexps, string) ==
    {k \in Matching(regexps, string) :
        \A k2 \in Matching(regexps, string) : Len(k2) <= Len(k)}

\* The selection a scan of the expressions held now makes, or may make.
FreshSelection(section, string) ==
    IF Matching(user_agent_regexps, string) = {}
    THEN section = << >>
    ELSE section \in MostSpecific(user_agent_regexps, string)

\* The file of the last load call, parsed.
LastFile == ParsedFile(last.path)

LoadRan == last.op = "load" /\ last.outcome \in {"ok", "compile_error"}

Resolves(cp, section) == get_browser_props(cp, section, 0).ok

\* C1: a query that is not answered from the cache selects, among the
\* sections whose expression matches the string, one no other of them is
\* longer than, and returns the mapping the parser holds for it; when no
\* section matches it selects none.
C1_MostSpecificSelection ==
    (last.op = "query" /\ last.outcome # "uninitialized_error" /\ ~last.hit) =>
        /\ FreshSelection(last.section, last.ua)
        /\ last.section # << >> =>
              /\ last.outcome = "props"
              /\ last.value = DictGet(user_agent_properties, last.section)

\* Two sections of different lengths match the string, and the scan has
\* taken a longer one.
C1_Witness ==
    /\ last.op = "query" /\ ~last.hit /\ last.outcome = "props"
    /\ \E k \in Matching(user_agent_regexps, last.ua) : Len(k) < Len(last.section)

\* C2: after a load that completed, the parser holds entries for exactly the
\* sections that load built: nothing of an earlier load is left.
C2_LoadReplaces ==
    (last.op = "load" /\ last.outcome = "ok") =>
        /\ DictKeys(user_agent_properties) = last.stored
        /\ DictKeys(user_agent_regexps) = last.stored

\* C3: the selection a query returns is the selection a fresh scan of the
\* expressions held now makes for the string: no answer comes from a cache
\* entry older than the last load.
C3_NoStaleSelection ==
    (last.op = "query" /\ last.outcome # "uninitialized_error") =>
        FreshSelection(last.section, last.ua)

\* C4: once a load has completed, a query for a string no section matches
\* returns the empty mapping when safe, and fails with the unknown user agent
\* error carrying the string when not.
C4_NotFoundPolicy ==
    (/\ last.op = "query"
     /\ load_state = "completed"
     /\ Matching(user_agent_regexps, last.ua) = {}) =>
        IF last.safe
        THEN last.outcome = "empty" /\ last.value = NoOptions
        ELSE last.outcome = "unknown_error" /\ last.message = last.ua

\* C5: on a parser load was never called on, query fails with the
\* uninitialized error whatever the string and the safe flag, and the two
\* dicts and the cache stay empty.
C5_QueryBeforeLoad ==
    (last.op = "query" /\ load_state = "never") =>
        /\ last.outcome = "uninitialized_error"
        /\ user_agent_properties = EmptyDict
        /\ user_agent_regexps = EmptyDict
        /\ match_cache = << >>

\* A safe query on a parser load was never called on.
C5_Witness ==
    last.op = "query" /\ load_state = "never" /\ last.safe

\* C6: a query for a string, with the safe flag, of an earlier query since
\* the last load call ends as that query did, with the same section (so with
\* the same mapping), and tests no expression; unless the parser raised the
\* uninitialized error, it is answered from the cache.
C6_RepeatIsCached ==
    (last.op = "query" /\ last.repeat) =>
        /\ last.outcome = remembered.outcome
        /\ last.section = remembered.section
        /\ last.scanned = 0
        /\ last.outcome # "uninitialized_error" => last.hit

\* A repeated query that found a section, with two expressions or more held.
C6_Witness ==
    /\ last.op = "query" /\ last.repeat /\ last.outcome = "props"
    /\ Len(user_agent_regexps) >= 2

\* resolved is the resolved mapping of the section's parent (the empty
\* mapping without a parent) with the section's own options written over it.
Overlaid(cp, section, resolved) ==
    LET own == cp[section]
        inherited == IF HasParent(cp, section)
                     THEN get_browser_props(cp, own["parent"], 0).props
                     ELSE NoOptions
    IN /\ DOMAIN resolved = DOMAIN inherited \cup DOMAIN own
       /\ \A k \in DOMAIN resolved :
              resolved[k] = IF k \in DOMAIN own THEN own[k] ELSE inherited[k]

\* C7: each mapping a load stores is the resolved mapping of the section's
\* parent (the empty mapping without a parent) with the section's own options
\* written over it: an option of both has the section's value.  The same
\* holds of the resolved mapping of every section of the file.
C7_ChildOverridesParent ==
    LoadRan =>
        /\ \A s \in last.stored :
              Overlaid(LastFile, s, DictGet(user_agent_properties, s))
        /\ \A s \in DOMAIN LastFile :
              Resolves(LastFile, s) =>
                  Overlaid(LastFile, s, get_browser_props(LastFile, s, 0).props)

\* A stored section with a parent and a grandparent, and an option of its own
\* that its parent's resolved mapping holds with another value.
C7_Witness ==
    /\ LoadRan
    /\ \E s \in last.stored :
          /\ HasParent(LastFile, s)
          /\ HasParent(LastFile, LastFile[s]["parent"])
          /\ \E k \in DOMAIN LastFile[s] :
                LET inherited ==
                        get_browser_props(LastFile, LastFile[s]["parent"], 0).props
                IN k \in DOMAIN inherited /\ inherited[k] # LastFile[s][k]

\* C8: a load of a file in which some leaf section does not resolve (a cycle
\* in its parent chain, or a parent the file does not hold) completes; after
\* it no such leaf has an entry, and every leaf that resolves has its entries.
C8_ResolutionFailureSkipsOnlyThatLeaf ==
    (LoadRan /\ \E s \in ChildSections(LastFile) : ~Resolves(LastFile, s)) =>
        /\ last.outcome = "ok"
        /\ \A s \in ChildSections(LastFile) :
              IF Resolves(LastFile, s)
              THEN DictHas(user_agent_properties, s) /\ DictHas(user_agent_regexps, s)
              ELSE ~DictHas(user_agent_properties, s) /\ ~DictHas(user_agent_regexps, s)

\* C9: the mapping a query returns is the mapping load stored for the
\* section: nothing a caller did to a mapping returned earlier shows in it.
C9_ReturnedMappingIsAsLoaded ==
    (last.op = "query" /\ last.outcome = "props") =>
        last.value = stored_props[last.section]

\* C10: a load call that ends at the file (no such file, or a file that
\* cannot be read or parsed) leaves the two dicts and the cache as they were.
C10_FailedLoadChangesNothing ==
    [][(last'.op = "load" /\ last'.outcome \in {"file_not_found", "read_error"}) =>
          UNCHANGED <<user_agent_properties, user_agent_regexps, match_cache>>]_vars

\* A load call that ended at the file, on a parser that holds entries and
\* cached selections.
C10_Witness ==
    /\ last.op = "load" /\ last.outcome = "file_not_found"
    /\ user_agent_regexps # EmptyDict
    /\ match_cache # << >>

\* The elements of a list.
Elements(l) == {l[i] : i \in DOMAIN l}

\* C11: the list get_all_user_agents returns holds, once each, exactly the
\* sections an expression is held for, which are the sections __match can
\* select.
C11_ListIsTheSelectableSections ==
    (last.op = "list" /\ last.outcome = "keys") =>
        /\ Elements(last.value) = DictKeys(user_agent_regexps)
        /\ Len(last.value) = Cardinality(DictKeys(user_agent_regexps))

\* The other half of C11: no step in which the caller edits the returned list
\* changes what the parser holds.
C11_ListIsACopy ==
    [][last'.op = "list_edit" =>
          UNCHANGED <<user_agent_properties, user_agent_regexps, match_cache>>]_vars

\* re.compile accepts the expression made of the section's name.
Compiles(section) == CompiledRe[section].ok

\* C12: a load of a file in which the expression of some leaf section does
\* not compile completes; after it no such leaf has an entry, and every leaf
\* that resolves and whose expression compiles has its entries.
C12_CompileFailureSkipsOnlyThatLeaf ==
    (LoadRan /\ \E s \in ChildSections(LastFile) :
                    Resolves(LastFile, s) /\ ~Compiles(s)) =>
        /\ last.outcome = "ok"
        /\ \A s \in ChildSections(LastFile) :
              Resolves(LastFile, s) =>
                  IF Compiles(s)
                  THEN DictHas(user_agent_properties, s) /\ DictHas(user_agent_regexps, s)
                  ELSE ~DictHas(user_agent_properties, s) /\ ~DictHas(user_agent_regexps, s)

\* The string matches the name in full as a glob: ? is one character, * is
\* any run of characters, any other character is itself.
RECURSIVE GlobMatch(_, _)
GlobMatch(p, s) ==
    IF p = << >> THEN s = << >>
    ELSE CASE Head(p) = "*" ->
                 GlobMatch(Tail(p), s) \/ (s # << >> /\ GlobMatch(p, Tail(s)))
           [] Head(p) = "?" -> s # << >> /\ GlobMatch(Tail(p), Tail(s))
           [] OTHER -> s # << >> /\ Head(s) = Head(p) /\ GlobMatch(Tail(p), Tail(s))

\* C13: the compiled expression of a section name matches a string exactly
\* when the string matches the name in full as a glob.
C13_GlobSemantics ==
    (last.op = "match" /\ last.outcome \in {"match", "no_match"}) =>
        (last.outcome = "match" <=> GlobMatch(last.section, last.ua))

\* C14: a load gives an entry (a mapping and an expression) to each section
\* of the file, its meta sections apart, that no section names as its parent
\* and that resolves and compiles, and gives none to a section some section
\* names as its parent.
C14_LeafOnlyCatalog ==
    LoadRan =>
        \A s \in DOMAIN LastFile :
            IF s \in ChildSections(LastFile)
            THEN (Resolves(LastFile, s) /\ Compiles(s)) =>
                     /\ s \in last.stored
                     /\ DictHas(user_agent_properties, s)
                     /\ DictHas(user_agent_regexps, s)
            ELSE s \notin last.stored

\* What a query for the string returns or raises on the two dicts of catalog
\* when no cache entry answers it.
AnswerOn(catalog, user_agent_string, safe) ==
    IF catalog.regexps = EmptyDict
    THEN [outcome |-> "uninitialized_error", section |-> << >>, value |-> NoOptions]
    ELSE Returned(Scan(catalog.regexps, user_agent_string, 1, << >>), safe,
                  catalog.properties)

\* C15: a query made while a load is under way, and not answered from the
\* cache, ends as it would on the two dicts as they were when the load began
\* or as it would on the two dicts as the load leaves them.
C15_LoadPublishesAtomically ==
    (loading.active /\ last.op = "query" /\ ~last.hit) =>
        LET result == [outcome |-> last.outcome, section |-> last.section,
                       value |-> last.value]
        IN \/ result = AnswerOn(loading.before, last.ua, last.safe)
           \/ result = AnswerOn(loading.after, last.ua, last.safe)

\* C16: of queries that run at the same time on dicts no load is writing,
\* each returns or raises what it would alone; each write of a cache entry
\* writes the section the call would select alone, keeps the value of an
\* entry already there for the string, and no entry of another string changes.
C16_RacingQueriesAreSafe ==
    [][\A t \in Threads :
          /\ (threads[t].pc \in {"return", "raise"} /\ threads'[t].pc = "idle") =>
                 /\ last'.ua = threads[t].ua
                 /\ last'.outcome = threads[t].alone.outcome
                 /\ last'.section = threads[t].alone.section
                 /\ last'.value = threads[t].alone.value
          /\ (threads[t].pc = "write" /\ threads'[t].pc = "return") =>
                 /\ match_cache'[threads[t].ua] = threads[t].alone.section
                 /\ \A k \in DOMAIN match_cache :
                        k \in DOMAIN match_cache' /\ match_cache'[k] = match_cache[k]]_vars

\* Two threads race for one string: one has written its entry, the other,
\* which looked into the cache before that, is about to write it again,
\* with two expressions or more held.
C16_Witness ==
    \E t, u \in Threads :
        /\ t # u
        /\ threads[t].pc = "write" /\ threads[u].pc = "return" /\ ~threads[u].hit
        /\ threads[t].ua = threads[u].ua
        /\ threads[t].ua \in DOMAIN match_cache
        /\ threads[t].matching_section # << >>
        /\ Len(user_agent_regexps) >= 2

\* C17: a call of query, however it ends, leaves the two dicts as they were,
\* and leaves the cache as it was or with one more entry, for the string of
\* the call; no call (of query or of load) removes or changes a cache entry.
C17_QueryFrame ==
    [][/\ last'.op = "query" =>
              /\ UNCHANGED <<user_agent_properties, user_agent_regexps>>
              /\ \/ match_cache' = match_cache
                 \/ /\ last'.ua \notin DOMAIN match_cache
                    /\ DOMAIN match_cache' = DOMAIN match_cache \cup {last'.ua}
       /\ \A k \in DOMAIN match_cache :
              k \in DOMAIN match_cache' /\ match_cache'[k] = match_cache[k]]_vars

\* A query that failed for an unknown string has added its entry to a cache
\* that held another, which is still there.
C17_Witness ==
    /\ last.op = "query" /\ ~last.hit /\ last.outcome = "unknown_error"
    /\ last.ua \in DOMAIN match_cache
    /\ \E k \in DOMAIN match_cache : k # last.ua /\ match_cache[k] # << >>

\* C18: once a call of load has completed, neither query nor
\* get_all_user_agents raises the uninitialized error: a query for a string
\* no section matches ends by the safe flag, and with no entry held the list
\* is empty.
C18_UninitializedOnlyBeforeLoad ==
    (load_state = "completed" /\ last.op \in {"query", "list"}) =>
        /\ last.outcome # "uninitialized_error"
        /\ (last.op = "query" /\ Matching(user_agent_regexps, last.ua) = {}) =>
               last.outcome = IF last.safe THEN "empty" ELSE "unknown_error"
        /\ (last.op = "list" /\ user_agent_properties = EmptyDict) =>
               last.outcome = "keys" /\ last.value = << >>

\* C19: the sections a mapping is held for are the sections an expression is
\* held for.
C19_PairedDicts ==
    DictKeys(user_agent_properties) = DictKeys(user_agent_regexps)

\* One half of C19 that no call breaks: a mapping is held for every section
\* an expression is held for.
C19_SelectableHasProperties ==
    DictKeys(user_agent_regexps) \subseteq DictKeys(user_agent_properties)

=============================================================================
